---- MODULE Spec2Model ----
(***************************************************************************)
(* Container and overlay network lifecycle of agent/container.py.          *)
(* The state is the part of the host the class Container touches: the      *)
(* supervisor unit directory, the per-container scripts, the mount source  *)
(* directories, the temporary directory of create_container_file and the   *)
(* supervisor's enabled/active units, plus the position of every           *)
(* Container object inside the method it is running.                       *)
(***************************************************************************)
EXTENDS Integers, Sequences, FiniteSets, TLC

VARIABLES
    network,    \* config["network"] of each container (config.json, read-only)
    op,         \* the method a Container object is running, "none" when idle
    pc,         \* its position inside that method
    trace,      \* the steps the running method has issued so far, in order
    raised,     \* the exception the running method has raised, "none" if none
    result,     \* value the running method is about to return, "none" if None
    pre,        \* which unit files existed when the running method was called
    files,      \* content of every file path the class reads or writes
    dirs,       \* the directories that exist (mount sources, temporary directories)
    enabled,    \* network services the supervisor has enabled
    active,     \* network services the supervisor has started
    phase,      \* lifecycle phase of each container (spec section 4.5)
    calls,      \* number of requests accepted so far (counted by SpecPar only)
    discarded,  \* <<command, exit>> of every ExecutionResult the running method dropped
    config,     \* config["mounts"], ["ports"], ["environment_variables"] of one object
    bindings    \* what its mounts, ports and environment_variables properties returned

vars == <<network, op, pc, trace, raised, result, pre, files, dirs, enabled, active,
          phase, calls, discarded, config, bindings>>

----------------------------------------------------------------------------
(* The host before any Container object exists.                            *)

\* Names a caller may pass to Container(name, server).
Names == {"web1", "web2", "tmp1", "ghost"}

\* Network namespaces named by the config files.
Namespaces == {"net1", "net2"}

\* os.path.isdir(self.directory): "ghost" has no backing directory.
IsDir(name) == name \in {"web1", "web2", "tmp1"}

\* os.path.exists(self.config_file): "tmp1" has a directory without config.json.
ConfigExists(name) == name \in {"web1", "web2"}

\* Names whose config.json is on disk.
Valid == {n \in Names : IsDir(n) /\ ConfigExists(n)}

\* config["mounts"]: the mount sources, in configuration order.
Mounts(name) ==
    IF name = "web1" THEN <<"/srv/web1", "/srv/shared">>
    ELSE IF name = "web2" THEN <<"/srv/shared">>
    ELSE <<>>

----------------------------------------------------------------------------
(* Paths and unit names derived in __init__.                               *)

\* self.container_file: {systemd_directory}/{name}.container
container_file(c) == <<"systemd", c, "container">>

\* self.network_service: overlay-{network}.service
network_service(c) == <<"overlay", network[c], "service">>

\* Mutant: the unit file name ignores config["network"].
network_service_file_unkeyed(c) == <<"systemd", "net1", "service">>

\* self.network_service_file: {systemd_directory}/overlay-{network}.service
network_service_file(c) == <<"systemd", network[c], "service">>

\* self.attach_script: {directory}/attach.sh
attach_script(c) == <<"containers", c, "attach.sh">>

\* self.peers_script: {directory}/peers.sh
peers_script(c) == <<"containers", c, "peers.sh">>

\* temporary_directory of one create_container_file call.
temporary_directory(c) == <<"tmp", c>>

\* temporary_unit: {temporary_directory}/{name}.container
temporary_unit(c) == <<"tmp", c, "container">>

\* A mount source as a directory of the host.
MountDir(path) == <<"host", path>>

Paths ==
    {<<"systemd", n, "container">> : n \in Valid}
        \cup {<<"systemd", ns, "service">> : ns \in Namespaces}
        \cup {<<"containers", n, "attach.sh">> : n \in Valid}
        \cup {<<"containers", n, "peers.sh">> : n \in Valid}
        \cup {<<"tmp", n, "container">> : n \in Valid}

Absent == <<"absent", <<>>>>
Partial == <<"partial", <<>>>>

\* The text _render_template writes: a function of template and context.
Rendered(template, context) == <<template, context>>

\* The context create_container_file passes (image, mounts, ports and
\* environment are fixed by the name's config.json).
container_context(c) == <<c, attach_script(c)>>

\* The context create_network_service passes.
network_context(c) == <<network[c], peers_script(c)>>

\* The context create_attach_script passes.
attach_context(c) == <<network[c], c>>

\* The context create_peers_script passes.
peers_context(c) == <<network[c], c>>

Exists(path) == files[path] /= Absent

----------------------------------------------------------------------------
NoPre == [container_file |-> FALSE, network_service_file |-> FALSE]

\* The state every behaviour starts in, but for the config files' networks.
Fresh ==
    /\ op = [n \in Names |-> "none"]
    /\ pc = [n \in Names |-> "absent"]
    /\ trace = [n \in Names |-> <<>>]
    /\ raised = [n \in Names |-> "none"]
    /\ result = [n \in Names |-> "none"]
    /\ pre = [n \in Names |-> NoPre]
    /\ files = [p \in Paths |-> Absent]
    /\ dirs = {}
    /\ enabled = {}
    /\ active = {}
    /\ phase = [n \in Names |-> IF n \in Valid THEN "Configured" ELSE "Absent"]
    /\ calls = 0
    /\ discarded = [n \in Names |-> {}]

\* No property has been read yet.
NoBindings ==
    [mounts |-> <<>>, ports |-> <<>>, environment_variables |-> <<>>, read |-> {}]

\* A config.json with no mounts, ports or environment variables.
NoConfig == [mounts |-> <<>>, ports |-> <<>>, environment_variables |-> <<>>]

\* web1 and web2 name the same network in their config.json.
Init ==
    /\ network = [n \in Valid |-> "net1"]
    /\ Fresh
    /\ config = NoConfig
    /\ bindings = NoBindings

\* web1 and web2 name different networks.
InitPar ==
    /\ network = [n \in Valid |-> IF n = "web1" THEN "net1" ELSE "net2"]
    /\ Fresh
    /\ config = NoConfig
    /\ bindings = NoBindings

----------------------------------------------------------------------------
(* Helpers shared by the steps.                                            *)

Goto(c, p) == pc' = [pc EXCEPT ![c] = p]
Issue(c, label) == trace' = [trace EXCEPT ![c] = Append(@, label)]
Raise(c, e) == raised' = [raised EXCEPT ![c] = e]

\* Base.execute: the command cannot be launched (ExecutionError), or it runs
\* and exits 0 or non-zero; a non-zero exit is returned, not raised.
ExecOutcomes == {"ExecutionError", "exit0", "exit1"}

\* server._render_template(template, context, outfile): fails before it
\* writes anything, or opens outfile (truncating it) and then writes the text.
render_template(c, template, context, outfile, here, writing, next, onfail) ==
    \/ /\ pc[c] = here
       /\ Issue(c, here)
       /\ \/ /\ files' = [files EXCEPT ![outfile] = Partial]
             /\ Goto(c, writing)
             /\ UNCHANGED raised
          \/ /\ Raise(c, "RenderError")
             /\ Goto(c, onfail)
             /\ UNCHANGED files
    \/ /\ pc[c] = writing
       /\ files' = [files EXCEPT ![outfile] = Rendered(template, context)]
       /\ Goto(c, next)
       /\ UNCHANGED <<trace, raised>>

\* Mutant: os.makedirs(path) without exist_ok.
makedirs_no_exist_ok(path, existing) ==
    IF MountDir(path) \in existing THEN {"FileExistsError"} ELSE {"ok", "OSError"}

\* os.makedirs(path, exist_ok=True) on a host whose directories are `existing`:
\* an existing directory is accepted, a missing one is created or refused.
makedirs(path, existing) ==
    IF MountDir(path) \in existing THEN {"ok"} ELSE {"ok", "OSError"}

----------------------------------------------------------------------------
(* Container.__init__                                                      *)

\* Mutant: only the directory is checked.
init_check_directory_only(name) == IsDir(name)

\* The check of lines 24-27.
init_check(name) == IsDir(name) /\ ConfigExists(name)

\* Container(name, server): the object exists ("idle") or the constructor raises.
construct(name) ==
    /\ pc[name] = "absent"
    /\ op' = [op EXCEPT ![name] = "__init__"]
    /\ IF init_check(name)
         THEN /\ Goto(name, "idle")
              /\ UNCHANGED raised
         ELSE /\ Raise(name, "Exception")
              /\ Goto(name, "return")
    /\ UNCHANGED <<config, bindings, network, trace, result, pre, files, dirs, enabled, active, phase, discarded>>

\* A request arrives and the caller constructs the object for it, when no
\* other object is inside a method (section 5: requests are serialized).
Construct(name) ==
    /\ \A d \in Names \ {name} : pc[d] = "absent"
    /\ construct(name)
    /\ UNCHANGED calls

\* Requests accepted in the interleaved specification.
MaxCalls == 3

\* A request arrives while other objects may be inside their methods.
ConstructPar(name) ==
    /\ calls < MaxCalls
    /\ construct(name)
    /\ calls' = calls + 1

----------------------------------------------------------------------------
(* Calls: a caller invokes a method of an idle Container object.           *)

Call(c, method, first) ==
    /\ pc[c] = "idle"
    /\ op' = [op EXCEPT ![c] = method]
    /\ Goto(c, first)
    /\ trace' = [trace EXCEPT ![c] = <<>>]
    /\ raised' = [raised EXCEPT ![c] = "none"]
    /\ result' = [result EXCEPT ![c] = "none"]
    /\ pre' = [pre EXCEPT ![c] =
                 [container_file |-> Exists(container_file(c)),
                  network_service_file |-> Exists(network_service_file(c))]]
    /\ UNCHANGED <<config, bindings, network, files, dirs, enabled, active, phase, calls, discarded>>

call_start(c) == Call(c, "start", "create_mount_directories")
call_create_overlay_network(c) == Call(c, "create_overlay_network", "create_peers_script")
call_delete_overlay_network(c) == Call(c, "delete_overlay_network", "ip_netns_delete")
\* Mutant: stop() removes the unit file without stopping the service first.
call_stop_remove_first(c) == Call(c, "stop", "remove_container_file")

call_stop(c) == Call(c, "stop", "stop_container_unit")

----------------------------------------------------------------------------
(* start                                                                   *)

create_mount_directories(c) ==
    /\ pc[c] = "create_mount_directories"
    /\ Issue(c, "create_mount_directories")
    /\ \E k \in 0..Len(Mounts(c)) :
         LET before(i) == dirs \cup {MountDir(Mounts(c)[j]) : j \in 1..(i - 1)}
         IN  /\ \A i \in 1..k : "ok" \in makedirs(Mounts(c)[i], before(i))
             /\ dirs' = before(k + 1)
             /\ IF k = Len(Mounts(c))
                  THEN /\ Goto(c, "create_attach_script")
                       /\ UNCHANGED raised
                  ELSE /\ \E e \in makedirs(Mounts(c)[k + 1], before(k + 1)) \ {"ok"} :
                            Raise(c, e)
                       /\ Goto(c, "return")
    /\ UNCHANGED <<config, bindings, network, op, result, pre, files, enabled, active, phase, calls, discarded>>

create_attach_script(c) ==
    /\ render_template(c, "container/attach.jinja2", attach_context(c), attach_script(c),
                       "create_attach_script", "create_attach_script:write",
                       "create_container_file", "return")
    /\ UNCHANGED <<config, bindings, network, op, result, pre, dirs, enabled, active, phase, calls, discarded>>

\* with tempfile.TemporaryDirectory() as temporary_directory:
create_container_file(c) ==
    /\ pc[c] = "create_container_file"
    /\ Issue(c, "create_container_file")
    /\ dirs' = dirs \cup {temporary_directory(c)}
    /\ Goto(c, "render_container_unit")
    /\ UNCHANGED <<config, bindings, network, op, raised, result, pre, files, enabled, active, phase, calls, discarded>>

\* Mutant: the unit is rendered straight to self.container_file.
render_container_unit_in_place(c) ==
    /\ render_template(c, "container/container.jinja2", container_context(c),
                       container_file(c),
                       "render_container_unit", "render_container_unit:write",
                       "quadlet_dryrun", "cleanup")
    /\ UNCHANGED <<config, bindings, network, op, result, pre, dirs, enabled, active, phase, calls, discarded>>

\* Mutant: the rendered unit is installed without being validated.
render_container_unit_unvalidated(c) ==
    /\ render_template(c, "container/container.jinja2", container_context(c),
                       temporary_unit(c),
                       "render_container_unit", "render_container_unit:write",
                       "rename", "cleanup")
    /\ UNCHANGED <<config, bindings, network, op, result, pre, dirs, enabled, active, phase, calls, discarded>>

\* lines 58-72: the unit is rendered to temporary_unit.
render_container_unit(c) ==
    /\ render_template(c, "container/container.jinja2", container_context(c),
                       temporary_unit(c),
                       "render_container_unit", "render_container_unit:write",
                       "quadlet_dryrun", "cleanup")
    /\ UNCHANGED <<config, bindings, network, op, result, pre, dirs, enabled, active, phase, calls, discarded>>

\* Mutant: a unit the generator rejects is not installed.
quadlet_dryrun_strict(c) ==
    /\ pc[c] = "quadlet_dryrun"
    /\ Issue(c, "quadlet_dryrun")
    /\ \E r \in ExecOutcomes :
         IF r = "ExecutionError"
           THEN /\ Raise(c, r)
                /\ Goto(c, "cleanup")
                /\ UNCHANGED result
           ELSE /\ result' = [result EXCEPT ![c] = r]
                /\ Goto(c, IF r = "exit0" THEN "rename" ELSE "cleanup")
                /\ UNCHANGED raised
    /\ UNCHANGED <<config, bindings, network, op, pre, files, dirs, enabled, active, phase, calls, discarded>>

\* lines 74-79: the generator's dry run over the temporary directory.
quadlet_dryrun(c) ==
    /\ pc[c] = "quadlet_dryrun"
    /\ Issue(c, "quadlet_dryrun")
    /\ \E r \in ExecOutcomes :
         IF r = "ExecutionError"
           THEN /\ Raise(c, r)
                /\ Goto(c, "cleanup")
                /\ UNCHANGED result
           ELSE /\ result' = [result EXCEPT ![c] = r]
                /\ Goto(c, "rename")
                /\ UNCHANGED raised
    /\ UNCHANGED <<config, bindings, network, op, pre, files, dirs, enabled, active, phase, calls, discarded>>

\* line 80: os.rename(temporary_unit, self.container_file)
rename(c) ==
    /\ pc[c] = "rename"
    /\ Issue(c, "rename")
    /\ files' = [files EXCEPT ![container_file(c)] = files[temporary_unit(c)],
                              ![temporary_unit(c)] = Absent]
    /\ Goto(c, "cleanup")
    /\ UNCHANGED <<config, bindings, network, op, raised, result, pre, dirs, enabled, active, phase, calls, discarded>>

\* Mutant: start() starts the unit right after installing it.
after_install_start_first(c) ==
    IF raised[c] = "none" THEN "start_container_unit" ELSE "return"

\* start(), lines 47-48: after create_container_file comes reload_systemd; an
\* exception raised inside create_container_file leaves start().
after_install(c) ==
    IF raised[c] = "none" THEN "reload_systemd" ELSE "return"

\* Mutant: the temporary directory is removed only when no exception is pending.
cleanup_unless_raised(c) ==
    /\ pc[c] = "cleanup"
    /\ Issue(c, "cleanup")
    /\ dirs' = IF raised[c] = "none" THEN dirs \ {temporary_directory(c)} ELSE dirs
    /\ files' = IF raised[c] = "none"
                  THEN [files EXCEPT ![temporary_unit(c)] = Absent]
                  ELSE files
    /\ Goto(c, after_install(c))
    /\ UNCHANGED <<config, bindings, network, op, raised, result, pre, enabled, active, phase, calls, discarded>>

\* leaving the with block, normally or by an exception, removes the directory.
cleanup(c) ==
    /\ pc[c] = "cleanup"
    /\ Issue(c, "cleanup")
    /\ dirs' = dirs \ {temporary_directory(c)}
    /\ files' = [files EXCEPT ![temporary_unit(c)] = Absent]
    /\ Goto(c, after_install(c))
    /\ UNCHANGED <<config, bindings, network, op, raised, result, pre, enabled, active, phase, calls, discarded>>

\* The step that follows reload_systemd in each of its three callers.
after_reload(c) ==
    IF op[c] = "start" THEN "start_container_unit"
    ELSE IF op[c] = "create_overlay_network" THEN "start_network_service"
    ELSE "return"

\* self.execute(command) as a statement: the command cannot be launched and
\* the exception leaves the method, or it runs and the caller goes on without
\* looking at the ExecutionResult; enabled0 and active0 are the supervisor's
\* state after an exit status of 0.
execute(c, here, next, enabled0, active0) ==
    /\ pc[c] = here
    /\ Issue(c, here)
    /\ \E r \in ExecOutcomes :
         /\ IF r = "ExecutionError"
              THEN /\ Raise(c, r)
                   /\ Goto(c, "return")
              ELSE /\ Goto(c, next)
                   /\ UNCHANGED raised
         /\ discarded' = IF r = "ExecutionError" THEN discarded
                          ELSE [discarded EXCEPT ![c] = @ \cup {<<here, r>>}]
         /\ enabled' = IF r = "exit0" THEN enabled0 ELSE enabled
         /\ active' = IF r = "exit0" THEN active0 ELSE active

reload_systemd(c) ==
    /\ execute(c, "reload_systemd", after_reload(c), enabled, active)
    /\ UNCHANGED <<config, bindings, network, op, result, pre, files, dirs, phase, calls>>

start_container_unit(c) ==
    /\ execute(c, "start_container_unit", "return", enabled, active)
    /\ UNCHANGED <<config, bindings, network, op, result, pre, files, dirs, phase, calls>>

----------------------------------------------------------------------------
(* create_overlay_network                                                  *)

create_peers_script(c) ==
    /\ render_template(c, "container/peers.jinja2", peers_context(c), peers_script(c),
                       "create_peers_script", "create_peers_script:write",
                       "create_network_service", "return")
    /\ UNCHANGED <<config, bindings, network, op, result, pre, dirs, enabled, active, phase, calls, discarded>>

\* Mutant: the unit file is opened in exclusive-creation mode.
create_network_service_exclusive(c) ==
    /\ IF pc[c] = "create_network_service" /\ Exists(network_service_file(c))
         THEN /\ Issue(c, "create_network_service")
              /\ Raise(c, "FileExistsError")
              /\ Goto(c, "return")
              /\ UNCHANGED files
         ELSE render_template(c, "container/network.jinja2", network_context(c),
                              network_service_file(c),
                              "create_network_service", "create_network_service:write",
                              "enable_network_service", "return")
    /\ UNCHANGED <<config, bindings, network, op, result, pre, dirs, enabled, active, phase, calls, discarded>>

\* Mutant: create_network_service() returns without enabling the unit.
create_network_service_no_enable(c) ==
    /\ render_template(c, "container/network.jinja2", network_context(c),
                       network_service_file(c),
                       "create_network_service", "create_network_service:write",
                       "reload_systemd", "return")
    /\ UNCHANGED <<config, bindings, network, op, result, pre, dirs, enabled, active, phase, calls, discarded>>

\* lines 98-108: the network unit is rendered to its final path.
create_network_service(c) ==
    /\ render_template(c, "container/network.jinja2", network_context(c),
                       network_service_file(c),
                       "create_network_service", "create_network_service:write",
                       "enable_network_service", "return")
    /\ UNCHANGED <<config, bindings, network, op, result, pre, dirs, enabled, active, phase, calls, discarded>>

\* line 110: systemctl enable {network_service_file}
enable_network_service(c) ==
    /\ execute(c, "enable_network_service", "reload_systemd",
               enabled \cup {network_service(c)}, active)
    /\ UNCHANGED <<config, bindings, network, op, result, pre, files, dirs, phase, calls>>

start_network_service(c) ==
    /\ execute(c, "start_network_service", "return",
               enabled, active \cup {network_service(c)})
    /\ UNCHANGED <<config, bindings, network, op, result, pre, files, dirs, phase, calls>>

----------------------------------------------------------------------------
(* delete_overlay_network                                                  *)

\* Mutant: deleting the namespace also uninstalls the network unit.
ip_netns_delete_teardown(c) ==
    /\ pc[c] = "ip_netns_delete"
    /\ Issue(c, "ip_netns_delete")
    /\ \E r \in ExecOutcomes :
         IF r = "ExecutionError"
           THEN /\ Raise(c, r)
                /\ UNCHANGED result
           ELSE /\ result' = [result EXCEPT ![c] = r]
                /\ UNCHANGED raised
    /\ files' = [files EXCEPT ![network_service_file(c)] = Absent]
    /\ Goto(c, "return")
    /\ UNCHANGED <<config, bindings, network, op, pre, dirs, enabled, active, phase, calls, discarded>>

\* lines 143-149: one command, its result appended to the returned list.
ip_netns_delete(c) ==
    /\ pc[c] = "ip_netns_delete"
    /\ Issue(c, "ip_netns_delete")
    /\ \E r \in ExecOutcomes :
         IF r = "ExecutionError"
           THEN /\ Raise(c, r)
                /\ UNCHANGED result
           ELSE /\ result' = [result EXCEPT ![c] = r]
                /\ UNCHANGED raised
    /\ Goto(c, "return")
    /\ UNCHANGED <<config, bindings, network, op, pre, files, dirs, enabled, active, phase, calls, discarded>>

----------------------------------------------------------------------------
(* stop                                                                    *)

\* Mutant: a missing path is tolerated.
os_remove_missing_ok(c, path, here, next) ==
    /\ pc[c] = here
    /\ Issue(c, here)
    /\ files' = [files EXCEPT ![path] = Absent]
    /\ Goto(c, next)
    /\ UNCHANGED raised

\* os.remove(path): FileNotFoundError when the path does not exist.
os_remove(c, path, here, next) ==
    /\ pc[c] = here
    /\ Issue(c, here)
    /\ IF Exists(path)
         THEN /\ files' = [files EXCEPT ![path] = Absent]
              /\ Goto(c, next)
              /\ UNCHANGED raised
         ELSE /\ Raise(c, "FileNotFoundError")
              /\ Goto(c, "return")
              /\ UNCHANGED files

stop_container_unit(c) ==
    /\ execute(c, "stop_container_unit", "remove_container_file", enabled, active)
    /\ UNCHANGED <<config, bindings, network, op, result, pre, files, dirs, phase, calls>>

remove_container_file(c) ==
    /\ os_remove(c, container_file(c), "remove_container_file", "stop_network_service")
    /\ UNCHANGED <<config, bindings, network, op, result, pre, dirs, enabled, active, phase, calls, discarded>>

stop_network_service(c) ==
    /\ execute(c, "stop_network_service", "disable_network_service",
               enabled, active \ {network_service(c)})
    /\ UNCHANGED <<config, bindings, network, op, result, pre, files, dirs, phase, calls>>

disable_network_service(c) ==
    /\ execute(c, "disable_network_service", "remove_network_service_file",
               enabled \ {network_service(c)}, active)
    /\ UNCHANGED <<config, bindings, network, op, result, pre, files, dirs, phase, calls>>

\* Mutant: line 182 removes self.container_file again.
remove_network_service_file_wrong_path(c) ==
    /\ os_remove(c, container_file(c), "remove_network_service_file", "reload_systemd")
    /\ UNCHANGED <<config, bindings, network, op, result, pre, dirs, enabled, active, phase, calls, discarded>>

\* Mutant: line 182 tolerates a network unit file that is not there.
remove_network_service_file_missing_ok(c) ==
    /\ os_remove_missing_ok(c, network_service_file(c), "remove_network_service_file",
                            "reload_systemd")
    /\ UNCHANGED <<config, bindings, network, op, result, pre, dirs, enabled, active, phase, calls, discarded>>

\* Mutant: the network unit stays while another running container uses it.
remove_network_service_file_if_unused(c) ==
    /\ pc[c] = "remove_network_service_file"
    /\ IF \E d \in Valid \ {c} : network[d] = network[c] /\ phase[d] = "Running"
         THEN /\ pc[c] = "remove_network_service_file"
              /\ Issue(c, "remove_network_service_file")
              /\ Goto(c, "reload_systemd")
              /\ UNCHANGED <<files, raised>>
         ELSE os_remove(c, network_service_file(c), "remove_network_service_file",
                        "reload_systemd")
    /\ UNCHANGED <<config, bindings, network, op, result, pre, dirs, enabled, active, phase, calls, discarded>>

remove_network_service_file(c) ==
    /\ os_remove(c, network_service_file(c), "remove_network_service_file", "reload_systemd")
    /\ UNCHANGED <<config, bindings, network, op, result, pre, dirs, enabled, active, phase, calls, discarded>>

----------------------------------------------------------------------------
(* The method returns to its caller, or its exception reaches the caller.  *)

\* Phase of section 4.5 after the method ends.
next_phase(c) ==
    IF raised[c] /= "none" THEN phase[c]
    ELSE IF op[c] = "start" THEN "Running"
    ELSE IF op[c] = "stop" THEN "Configured"
    ELSE IF op[c] = "create_overlay_network" /\ phase[c] = "Configured" THEN "NetworkReady"
    ELSE phase[c]

Return(c) ==
    /\ pc[c] = "return"
    /\ phase' = [phase EXCEPT ![c] = next_phase(c)]
    /\ op' = [op EXCEPT ![c] = "none"]
    /\ Goto(c, "absent")
    /\ trace' = [trace EXCEPT ![c] = <<>>]
    /\ raised' = [raised EXCEPT ![c] = "none"]
    /\ result' = [result EXCEPT ![c] = "none"]
    /\ pre' = [pre EXCEPT ![c] = NoPre]
    /\ discarded' = [discarded EXCEPT ![c] = {}]
    /\ UNCHANGED <<config, bindings, network, files, dirs, enabled, active, calls>>

----------------------------------------------------------------------------
Invoke(c) ==
    \/ call_start(c)
    \/ call_create_overlay_network(c)
    \/ call_delete_overlay_network(c)
    \/ call_stop(c)

Step(c) ==
    \/ create_mount_directories(c)
    \/ create_attach_script(c)
    \/ create_container_file(c)
    \/ render_container_unit(c)
    \/ quadlet_dryrun(c)
    \/ rename(c)
    \/ cleanup(c)
    \/ reload_systemd(c)
    \/ start_container_unit(c)
    \/ create_peers_script(c)
    \/ create_network_service(c)
    \/ enable_network_service(c)
    \/ start_network_service(c)
    \/ ip_netns_delete(c)
    \/ stop_container_unit(c)
    \/ remove_container_file(c)
    \/ stop_network_service(c)
    \/ disable_network_service(c)
    \/ remove_network_service_file(c)
    \/ Return(c)

Next ==
    \E c \in Names :
        \/ Construct(c)
        \/ Invoke(c)
        \/ Step(c)

Spec == Init /\ [][Next]_vars

\* Methods of the Container objects of web1 and web2 interleaved step by step.
NextPar ==
    \E c \in Valid :
        \/ ConstructPar(c)
        \/ Invoke(c)
        \/ Step(c)

SpecPar == InitPar /\ [][NextPar]_vars

----------------------------------------------------------------------------
(* The binding properties (lines 151-173). A formatted string is the       *)
(* sequence of the pieces the f-string concatenates.                       *)

\* Longest mounts, ports and environment_variables section drawn.
MaxLen == 2

\* Entries config["mounts"] may hold.
MountChoices ==
    { [source |-> "/srv/web1", destination |-> "/data", options |-> "rw"],
      [source |-> "/srv/shared", destination |-> "/shared", options |-> "ro"],
      [source |-> "/data", destination |-> "/srv/web1", options |-> "rw"] }

\* Entries config["ports"] may hold; port numbers are JSON integers.
PortChoices ==
    { [host_ip |-> "0.0.0.0", host_port |-> 8080, container_port |-> 80,
       protocol |-> "tcp"],
      [host_ip |-> "127.0.0.1", host_port |-> 53, container_port |-> 5353,
       protocol |-> "udp"] }

EnvKeys == {"MODE", "DEBUG"}
EnvValues == {"prod", "1"}

\* Sequences over S of length at most MaxLen.
UpTo(S) == UNION {[1..n -> S] : n \in 0..MaxLen}

\* A JSON object keeps its keys distinct; items() yields them in file order.
EnvChoices ==
    {e \in UpTo(EnvKeys \X EnvValues) :
        \A i, j \in 1..Len(e) : i /= j => e[i][1] /= e[j][1]}

Configs ==
    [mounts : UpTo(MountChoices), ports : UpTo(PortChoices),
     environment_variables : EnvChoices]

InitFmt ==
    /\ network = [n \in Valid |-> "net1"]
    /\ Fresh
    /\ config \in Configs
    /\ bindings = NoBindings

Digit(d) == <<"0", "1", "2", "3", "4", "5", "6", "7", "8", "9">>[d + 1]

\* What an f-string makes of a non-negative integer: its decimal digits.
RECURSIVE str(_)
str(n) == IF n < 10 THEN <<Digit(n)>> ELSE str(n \div 10) \o <<Digit(n % 10)>>

\* Mutant: source and destination change places.
mount_binding_swapped(mount) ==
    <<mount.destination, ":", mount.source, ":", mount.options>>

\* line 153: f"{mount['source']}:{mount['destination']}:{mount['options']}"
mount_binding(mount) ==
    <<mount.source, ":", mount.destination, ":", mount.options>>

\* lines 161-162: f"{host_ip}:{host_port}" f":{container_port}/{protocol}"
port_binding(port) ==
    <<port.host_ip, ":">> \o str(port.host_port) \o <<":">>
        \o str(port.container_port) \o <<"/", port.protocol>>

\* line 170: f"{key}={value}"
environment_binding(item) == <<item[1], "=", item[2]>>

\* lines 151-155: one string per entry of config["mounts"], in its order.
mounts ==
    /\ "mounts" \notin bindings.read
    /\ bindings' = [bindings EXCEPT
                       !.mounts = [i \in 1..Len(config.mounts) |->
                                      mount_binding(config.mounts[i])],
                       !.read = @ \cup {"mounts"}]
    /\ UNCHANGED <<config, network, op, pc, trace, raised, result, pre, files,
                   dirs, enabled, active, phase, calls, discarded>>

\* lines 157-165: one string per entry of config["ports"], in its order.
ports ==
    /\ "ports" \notin bindings.read
    /\ bindings' = [bindings EXCEPT
                       !.ports = [i \in 1..Len(config.ports) |->
                                     port_binding(config.ports[i])],
                       !.read = @ \cup {"ports"}]
    /\ UNCHANGED <<config, network, op, pc, trace, raised, result, pre, files,
                   dirs, enabled, active, phase, calls, discarded>>

\* lines 167-172: one string per item of config["environment_variables"].
environment_variables ==
    /\ "environment_variables" \notin bindings.read
    /\ bindings' = [bindings EXCEPT
                       !.environment_variables =
                           [i \in 1..Len(config.environment_variables) |->
                               environment_binding(config.environment_variables[i])],
                       !.read = @ \cup {"environment_variables"}]
    /\ UNCHANGED <<config, network, op, pc, trace, raised, result, pre, files,
                   dirs, enabled, active, phase, calls, discarded>>

NextFmt ==
    \/ mounts
    \/ ports
    \/ environment_variables

SpecFmt == InitFmt /\ [][NextFmt]_vars

----------------------------------------------------------------------------
(* Properties.                                                             *)

Pos(order, label) == CHOOSE i \in 1..Len(order) : order[i] = label

\* The labels of t are labels of order, in order's order, none repeated.
Ordered(t, order) ==
    /\ \A i \in 1..Len(t) : \E k \in 1..Len(order) : order[k] = t[i]
    /\ \A i, j \in 1..Len(t) : i < j => Pos(order, t[i]) < Pos(order, t[j])

Returning(c, method) == op[c] = method /\ pc[c] = "return"

\* C1: when stop() is run on a container whose start() completed, and stop()
\* runs to its end or ends at the removal of a network unit that is missing,
\* neither {name}.container nor overlay-{network}.service is left in the
\* supervisor unit directory.
C1_CleanupComplete ==
    \A c \in Valid :
        ( /\ Returning(c, "stop")
          /\ phase[c] = "Running"
          /\ \/ raised[c] = "none"
             \/ raised[c] = "FileNotFoundError" /\ pre[c].container_file )
        => ~Exists(container_file(c)) /\ ~Exists(network_service_file(c))

\* start(), create_overlay_network() and then a stop() that returned normally.
C1_Witness ==
    \E c \in Valid :
        /\ Returning(c, "stop") /\ phase[c] = "Running" /\ raised[c] = "none"
        /\ pre[c].container_file /\ pre[c].network_service_file
        /\ ~Exists(container_file(c)) /\ ~Exists(network_service_file(c))

\* C2: whatever the Container objects are doing, a reader of the live unit
\* directory finds {name}.container absent or holding one complete rendering
\* of the container unit, never a partially written file.
C2_AtomicInstall ==
    \A c \in Valid :
        files[container_file(c)] \in
            {Absent, Rendered("container/container.jinja2", container_context(c))}

\* A previous version is installed, its replacement is half written in the
\* temporary directory, and another object is reloading the supervisor.
C2_Witness ==
    \E c, d \in Valid :
        /\ c /= d
        /\ Exists(container_file(c))
        /\ files[temporary_unit(c)] = Partial
        /\ pc[d] = "reload_systemd"

\* C3: a create_overlay_network() called while overlay-{network}.service is
\* already installed (by this container or by one sharing the namespace) fails
\* only where a first call can fail (rendering, launching a command); when it
\* returns, the unit directory holds one network unit file, the one a single
\* call of this container leaves.
C3_CreateNetworkTwice ==
    \A c \in Valid :
        (Returning(c, "create_overlay_network") /\ pre[c].network_service_file)
        => /\ raised[c] \in {"none", "RenderError", "ExecutionError"}
           /\ raised[c] = "none" =>
                /\ files[network_service_file(c)]
                     = Rendered("container/network.jinja2", network_context(c))
                /\ {ns \in Namespaces : Exists(<<"systemd", ns, "service">>)}
                     = {network[c]}

\* web2 returns from create_overlay_network() over the unit web1 installed.
C3_Witness ==
    /\ Returning("web2", "create_overlay_network")
    /\ pre["web2"].network_service_file
    /\ raised["web2"] = "none"
    /\ Exists(peers_script("web1"))
    /\ files[network_service_file("web2")]
         = Rendered("container/network.jinja2", network_context("web2"))

\* C4: in a start() called after a start() that completed, with no stop() in
\* between, the mount directory step succeeds and leaves the set of
\* directories as it was.
C4_MountIdempotent ==
    [][\A c \in Valid :
          (pc[c] = "create_mount_directories" /\ phase[c] = "Running"
             /\ pc'[c] /= pc[c])
          => /\ pc'[c] = "create_attach_script"
             /\ raised'[c] = "none"
             /\ dirs' = dirs]_vars

\* The second start() is past its mount directory step.
C4_Witness ==
    \E c \in Valid :
        /\ op[c] = "start" /\ phase[c] = "Running"
        /\ pc[c] = "create_attach_script"
        /\ \A i \in 1..Len(Mounts(c)) : MountDir(Mounts(c)[i]) \in dirs

\* C5: a stop() called while {name}.container is absent never returns
\* normally: it ends with an exception.
C5_StopNotIdempotent ==
    \A c \in Valid :
        (Returning(c, "stop") /\ ~pre[c].container_file) => raised[c] /= "none"

\* A stop() of a container that is not running ends at os.remove.
C5_Witness ==
    \E c \in Valid :
        /\ Returning(c, "stop") /\ ~pre[c].container_file
        /\ phase[c] = "Configured" /\ Exists(attach_script(c))
        /\ raised[c] = "FileNotFoundError"
        /\ trace[c] = <<"stop_container_unit", "remove_container_file">>

\* C6: the constructor fails for every name whose directory or config.json is
\* missing, so an object exists, and a method runs, only for names that have
\* both.
C6_ConstructionGuard ==
    \A n \in Names :
        /\ (op[n] = "__init__" /\ ~(IsDir(n) /\ ConfigExists(n)))
             => (pc[n] = "return" /\ raised[n] /= "none")
        /\ (pc[n] = "idle" \/ op[n] \notin {"none", "__init__"})
             => (IsDir(n) /\ ConfigExists(n))

\* The constructor has raised for a name with a directory and no config.json.
C6_Witness ==
    /\ op["tmp1"] = "__init__" /\ pc["tmp1"] = "return"
    /\ raised["tmp1"] = "Exception"

\* What belongs to container c: its unit files, its scripts, its temporary
\* unit, the state of its network service and the state of its running method.
Owned(c) ==
    <<files[container_file(c)], files[network_service_file(c)],
      files[attach_script(c)], files[peers_script(c)], files[temporary_unit(c)],
      network_service(c) \in enabled, network_service(c) \in active,
      op[c], pc[c], trace[c], raised[c], result[c], pre[c], phase[c], discarded[c]>>

\* C7: with web1 and web2 on different names and different networks, a step
\* of one container's method changes nothing the other container owns, in
\* every interleaving of the two.
C7_Independent ==
    [][\A c \in Valid : pc'[c] = pc[c] => Owned(c)' = Owned(c)]_vars

\* web1's stop() has removed web1.container and is stopping the network
\* service while web2's start() has just installed web2.container.
C7_Witness ==
    /\ network["web1"] /= network["web2"]
    /\ op["web1"] = "stop" /\ pc["web1"] = "stop_network_service"
    /\ ~Exists(container_file("web1"))
    /\ op["web2"] = "start" /\ pc["web2"] = "cleanup"
    /\ Exists(container_file("web2"))

StartOrder ==
    <<"create_mount_directories", "create_attach_script", "create_container_file",
      "render_container_unit", "quadlet_dryrun", "rename", "cleanup",
      "reload_systemd", "start_container_unit">>

\* C8: start() issues its steps in the order mount directories, attach
\* script, container unit (render, dry run, rename), supervisor reload, unit
\* start, each at most once; when the unit start is issued, all the steps
\* before it have been, the reload after the rename.
C8_StartOrder ==
    \A c \in Valid :
        op[c] = "start" =>
            /\ Ordered(trace[c], StartOrder)
            /\ (\E i \in 1..Len(trace[c]) : trace[c][i] = "start_container_unit")
                 => trace[c] = StartOrder

\* A start() that issued all its steps.
C8_Witness ==
    \E c \in Valid :
        Returning(c, "start") /\ raised[c] = "none" /\ trace[c] = StartOrder

\* The order the claim gives: the reload before the enable.
ClaimedNetworkOrder ==
    <<"create_peers_script", "create_network_service", "reload_systemd",
      "enable_network_service", "start_network_service">>

\* The order of the code: create_network_service() enables the unit it has
\* rendered, then create_overlay_network() reloads the supervisor.
NetworkOrder ==
    <<"create_peers_script", "create_network_service", "enable_network_service",
      "reload_systemd", "start_network_service">>

\* C9 as claimed: create_overlay_network() issues peers script, network unit,
\* supervisor reload, enable, start, in this order.
C9_ClaimedOrder ==
    \A c \in Valid :
        op[c] = "create_overlay_network" => Ordered(trace[c], ClaimedNetworkOrder)

\* C9 amended: create_overlay_network() issues peers script, network unit,
\* enable, supervisor reload, start, in this order, and a call that returns
\* normally has issued all five.
C9_NetworkOrder ==
    \A c \in Valid :
        op[c] = "create_overlay_network" =>
            /\ Ordered(trace[c], NetworkOrder)
            /\ (pc[c] = "return" /\ raised[c] = "none") => trace[c] = NetworkOrder

\* A create_overlay_network() that issued all its steps.
C9_Witness ==
    \E c \in Valid :
        /\ Returning(c, "create_overlay_network") /\ raised[c] = "none"
        /\ trace[c] = NetworkOrder

StopOrder ==
    <<"stop_container_unit", "remove_container_file", "stop_network_service",
      "disable_network_service", "remove_network_service_file", "reload_systemd">>

\* C10: the steps stop() has issued are always the first steps of: stop the
\* container unit, remove its unit file, stop the network service, disable it,
\* remove the network unit file, reload the supervisor; a stop() that returns
\* normally has issued all six.
C10_StopOrder ==
    \A c \in Valid :
        op[c] = "stop" =>
            /\ Len(trace[c]) <= Len(StopOrder)
            /\ trace[c] = SubSeq(StopOrder, 1, Len(trace[c]))
            /\ (pc[c] = "return" /\ raised[c] = "none") => trace[c] = StopOrder

\* A stop() that issued all its steps.
C10_Witness ==
    \E c \in Valid :
        Returning(c, "stop") /\ raised[c] = "none" /\ trace[c] = StopOrder

\* C11: delete_overlay_network() issues one command, the deletion of the
\* network namespace, and no step of it changes a file (unit files, scripts),
\* a directory, or the enabled/started status of a network service.
C11_DeleteFrame ==
    [][\A c \in Valid :
          (op[c] = "delete_overlay_network" /\ pc'[c] /= pc[c])
          => /\ files' = files /\ dirs' = dirs
             /\ enabled' = enabled /\ active' = active
             /\ pc[c] = "ip_netns_delete" => trace'[c] = <<"ip_netns_delete">>
             /\ pc[c] = "return" => trace[c] = <<"ip_netns_delete">>]_vars

\* delete_overlay_network() returns with the network unit still installed,
\* enabled and started.
C11_Witness ==
    \E c \in Valid :
        /\ Returning(c, "delete_overlay_network") /\ raised[c] = "none"
        /\ trace[c] = <<"ip_netns_delete">>
        /\ Exists(network_service_file(c)) /\ Exists(container_file(c))
        /\ network_service(c) \in enabled /\ network_service(c) \in active

\* C12 as claimed: no method drops the ExecutionResult of a command it ran
\* without returning it or looking at it.
C12_NoResultDiscarded ==
    \A c \in Valid : discarded[c] = {}

\* The decimal numerals of the port numbers drawn, written out.
Numeral(n) ==
    CASE n = 53 -> <<"5", "3">>
      [] n = 80 -> <<"8", "0">>
      [] n = 5353 -> <<"5", "3", "5", "3">>
      [] n = 8080 -> <<"8", "0", "8", "0">>

\* C13: once read, mounts has one element per configured mount, in the
\* configured order, the i-th being source:destination:options of the i-th
\* mount; ports likewise with hostIP:hostPort:containerPort/protocol; and
\* environment_variables has exactly one KEY=VALUE per configured variable.
C13_Bindings ==
    /\ "mounts" \in bindings.read =>
         /\ Len(bindings.mounts) = Len(config.mounts)
         /\ \A i \in 1..Len(config.mounts) :
              LET m == config.mounts[i] IN
              bindings.mounts[i] = <<m.source, ":", m.destination, ":", m.options>>
    /\ "ports" \in bindings.read =>
         /\ Len(bindings.ports) = Len(config.ports)
         /\ \A i \in 1..Len(config.ports) :
              LET p == config.ports[i] IN
              bindings.ports[i] =
                  <<p.host_ip, ":">> \o Numeral(p.host_port) \o <<":">>
                      \o Numeral(p.container_port) \o <<"/", p.protocol>>
    /\ "environment_variables" \in bindings.read =>
         /\ Len(bindings.environment_variables) = Len(config.environment_variables)
         /\ \A e \in EnvKeys \X EnvValues :
              Cardinality({i \in 1..Len(bindings.environment_variables) :
                             bindings.environment_variables[i] = <<e[1], "=", e[2]>>})
              = Cardinality({i \in 1..Len(config.environment_variables) :
                               config.environment_variables[i] = e})

\* All three properties have been read of a config with two different mounts,
\* two different ports and two variables.
C13_Witness ==
    /\ bindings.read = {"mounts", "ports", "environment_variables"}
    /\ Len(config.mounts) = 2 /\ config.mounts[1] /= config.mounts[2]
    /\ Len(config.ports) = 2 /\ config.ports[1] /= config.ports[2]
    /\ Len(config.environment_variables) = 2

Range(t) == {t[i] : i \in DOMAIN t}

\* The last step the running method of c has issued.
Last(t) == t[Len(t)]

\* C14 as claimed: once a step of start() has failed, by an exception or by
\* its command exiting non-zero, start() runs no later step (only the removal
\* of the temporary directory on the way out) and the failure is on its way
\* to the caller, while what the completed steps did stays in place.
C14_FailureAborts ==
    \A c \in Valid :
        op[c] = "start" =>
            /\ raised[c] /= "none" =>
                 /\ pc[c] \in {"cleanup", "return"}
                 /\ Last(trace[c]) = "cleanup" =>
                      trace[c][Len(trace[c]) - 1] \in
                          {"render_container_unit", "quadlet_dryrun"}
                 /\ "create_attach_script" \in Range(trace[c]) =>
                      \A i \in 1..Len(Mounts(c)) : MountDir(Mounts(c)[i]) \in dirs
                 /\ "create_container_file" \in Range(trace[c]) =>
                      Exists(attach_script(c))
                 /\ "reload_systemd" \in Range(trace[c]) =>
                      Exists(container_file(c))
            /\ \A d \in discarded[c] :
                 d[2] = "exit1" =>
                     /\ pc[c] = "return"
                     /\ raised[c] /= "none"
                     /\ Last(trace[c]) = d[1]

\* C15: when the generator's dry run has exited non-zero, create_container_file
\* still moves the rendered unit to {name}.container, and a start() that
\* returns normally returns the result of the dry run.
C15_InstalledDespiteValidation ==
    \A c \in Valid :
        op[c] = "start" =>
            /\ (result[c] = "exit1" /\ pc[c] /= "rename") =>
                 /\ "rename" \in Range(trace[c])
                 /\ files[container_file(c)] =
                        Rendered("container/container.jinja2", container_context(c))
            /\ (pc[c] = "return" /\ raised[c] = "none") =>
                 /\ result[c] \in {"exit0", "exit1"}
                 /\ Pos(trace[c], "quadlet_dryrun") < Pos(trace[c], "rename")

\* start() returns a non-zero validation result after installing a unit
\* where none was installed before.
C15_Witness ==
    \E c \in Valid :
        /\ Returning(c, "start") /\ raised[c] = "none" /\ result[c] = "exit1"
        /\ ~pre[c].container_file
        /\ Exists(container_file(c))

\* C16: the content of {name}.container changes only at the rename of
\* create_container_file, which follows, in this order, the creation of a
\* temporary directory that did not exist, the complete rendering of the unit
\* inside it and the return of the dry run, or at the removal by stop().
C16_WrittenOnlyByRename ==
    [][\A c \in Valid :
          /\ (pc[c] = "create_container_file" /\ pc'[c] /= pc[c]) =>
                /\ temporary_directory(c) \notin dirs
                /\ temporary_directory(c) \in dirs'
                /\ ~Exists(temporary_unit(c))
          /\ files'[container_file(c)] /= files[container_file(c)] =>
                \/ /\ op[c] = "start" /\ pc[c] = "rename"
                   /\ Len(trace[c]) >= 3
                   /\ SubSeq(trace[c], Len(trace[c]) - 2, Len(trace[c])) =
                          <<"create_container_file", "render_container_unit",
                            "quadlet_dryrun">>
                   /\ result[c] \in {"exit0", "exit1"}
                   /\ temporary_directory(c) \in dirs
                   /\ files[temporary_unit(c)] =
                          Rendered("container/container.jinja2", container_context(c))
                   /\ files'[container_file(c)] = files[temporary_unit(c)]
                \/ /\ op[c] = "stop" /\ pc[c] = "remove_container_file"
                   /\ files'[container_file(c)] = Absent]_vars

\* The rename has just installed a validated unit where none was installed.
C16_Witness ==
    \E c \in Valid :
        /\ op[c] = "start" /\ pc[c] = "cleanup" /\ Last(trace[c]) = "rename"
        /\ result[c] = "exit0"
        /\ ~pre[c].container_file
        /\ Exists(container_file(c))
        /\ ~Exists(temporary_unit(c))

\* C17: two containers whose configs name the same network have the same
\* network unit name and file, so a stop() of one that returns normally has
\* issued the stop and the disable of that unit and has removed its file,
\* whatever the phase of the other container; a stop or disable that exited 0
\* has taken effect on the unit the other container uses.
C17_SharedNetworkUnit ==
    \A c, d \in Valid :
        (c /= d /\ network[c] = network[d]) =>
            /\ network_service(c) = network_service(d)
            /\ network_service_file(c) = network_service_file(d)
            /\ (Returning(c, "stop") /\ raised[c] = "none") =>
                 /\ {"stop_network_service", "disable_network_service",
                     "remove_network_service_file"} \subseteq Range(trace[c])
                 /\ ~Exists(network_service_file(d))
                 /\ <<"stop_network_service", "exit0">> \in discarded[c] =>
                        network_service(d) \notin active
                 /\ <<"disable_network_service", "exit0">> \in discarded[c] =>
                        network_service(d) \notin enabled

\* stop() of web1 has removed the network unit while web2, on the same
\* network, is Running.
C17_Witness ==
    /\ Returning("web1", "stop") /\ raised["web1"] = "none"
    /\ network["web1"] = network["web2"]
    /\ phase["web2"] = "Running"
    /\ pre["web1"].network_service_file
    /\ ~Exists(network_service_file("web2"))
    /\ Exists(container_file("web2"))
    /\ <<"stop_network_service", "exit0">> \in discarded["web1"]

\* The overlay network of c's namespace is there: c, or a container sharing
\* its network, completed create_overlay_network, or the network unit is
\* installed.
NetworkReady(c) ==
    \/ Exists(network_service_file(c))
    \/ \E d \in Valid :
         network[d] = network[c] /\ phase[d] \in {"NetworkReady", "Running"}

\* C18 as claimed: a start() that completes and takes a container to Running
\* finds it in NetworkReady, the overlay network of its namespace created;
\* a stop() that completes leaves both unit files absent (back to Configured).
C18_RunningOnlyFromNetworkReady ==
    \A c \in Valid :
        /\ (Returning(c, "start") /\ raised[c] = "none" /\ phase[c] /= "Running")
               => NetworkReady(c)
        /\ (Returning(c, "stop") /\ raised[c] = "none")
               => /\ next_phase(c) = "Configured"
                  /\ ~Exists(container_file(c))
                  /\ ~Exists(network_service_file(c))

\* C19: a stop() called while the container unit file exists and the network
\* unit file does not never issues the supervisor reload and never returns
\* normally; unless a command cannot be launched, it removes the container
\* unit, issues the stop and the disable of the network service and fails
\* with FileNotFoundError at the removal of the network unit file.
C19_StopWithoutNetworkUnit ==
    \A c \in Valid :
        (op[c] = "stop" /\ pre[c].container_file /\ ~pre[c].network_service_file) =>
            /\ "reload_systemd" \notin Range(trace[c])
            /\ pc[c] = "return" => raised[c] \in {"FileNotFoundError", "ExecutionError"}
            /\ "remove_network_service_file" \in Range(trace[c]) =>
                   raised[c] = "FileNotFoundError"
            /\ raised[c] = "FileNotFoundError" =>
                 /\ trace[c] = SubSeq(StopOrder, 1, 5)
                 /\ ~Exists(container_file(c))
                 /\ {d[1] : d \in discarded[c]} =
                        {"stop_container_unit", "stop_network_service",
                         "disable_network_service"}

\* stop() of a container started without create_overlay_network has failed
\* at the removal of the network unit file.
C19_Witness ==
    \E c \in Valid :
        /\ Returning(c, "stop") /\ raised[c] = "FileNotFoundError"
        /\ pre[c].container_file /\ ~pre[c].network_service_file
        /\ phase[c] = "Running"
        /\ Last(trace[c]) = "remove_network_service_file"
        /\ ~Exists(container_file(c))

\* C20: when the rendering of the container unit or the launch of the dry run
\* fails inside create_container_file, {name}.container is as it was when
\* start() was called (absent, or the complete unit installed before), and
\* once the exception has left create_container_file the temporary directory
\* and the unit rendered in it are gone.
C20_FailedInstallLeavesLiveFile ==
    \A c \in Valid :
        (op[c] = "start" /\ raised[c] /= "none"
            /\ Last(trace[c]) \in {"render_container_unit", "quadlet_dryrun", "cleanup"}) =>
            /\ raised[c] \in {"RenderError", "ExecutionError"}
            /\ Exists(container_file(c)) = pre[c].container_file
            /\ files[container_file(c)] \in
                   {Absent, Rendered("container/container.jinja2", container_context(c))}
            /\ "rename" \notin Range(trace[c])
            /\ pc[c] = "return" =>
                 /\ Last(trace[c]) = "cleanup"
                 /\ temporary_directory(c) \notin dirs
                 /\ ~Exists(temporary_unit(c))

\* The dry run could not be launched: the exception reaches the caller, the
\* unit installed earlier is still in place and the temporary directory is gone.
C20_Witness ==
    \E c \in Valid :
        /\ Returning(c, "start") /\ raised[c] = "ExecutionError"
        /\ Last(trace[c]) = "cleanup"
        /\ "quadlet_dryrun" \in Range(trace[c])
        /\ pre[c].container_file
        /\ Exists(container_file(c))
        /\ temporary_directory(c) \notin dirs
====
